---- MODULE Spec2Model ----
(***************************************************************************)
(* Model of grpc_p2p_client/publish_experiment.py: the sweep driver that   *)
(* runs the publish client once per (datasize, frequency) combination,     *)
(* runs the latency utility into process.out, and aggregates process.out   *)
(* into computed.out.                                                      *)
(*                                                                         *)
(* Text is modelled as sequences of one-character strings, a file as the   *)
(* sequence of its lines.  External processes are opaque: an invocation is *)
(* its argv, its exit status is any member of ExitCodes, and the latency   *)
(* utility may leave any text of Contents in process.out.  The executables *)
(* and the working directory are assumed to exist (spawning and opening    *)
(* files do not fail).                                                     *)
(***************************************************************************)
EXTENDS Integers, Sequences, FiniteSets, TLC

VARIABLES
    datasizes,          \* the datasize list of the sweep
    frequencies,        \* the frequency list of the sweep
    count,              \* repetition count
    command_template,   \* the reused argv list (17 entries)
    pc,                 \* position of the script
    run_index,          \* number of run-loop iterations started
    invocations,        \* argv of every publish-client invocation, in order
    running,            \* external processes spawned and not yet exited
    client_exits,       \* publish-client processes that have exited
    utility_runs,       \* latency-utility processes spawned
    utility_exits,      \* latency-utility processes that have exited
    failed,             \* some external process of this run exited non-zero
    process_out,        \* file process.out (sequence of lines)
    all_lines,          \* result of f.readlines()
    data_lines,         \* the filtered lines
    computed_out,       \* file computed.out (sequence of written lines)
    iteration,          \* aggregation loop counter
    error,              \* the uncaught exception, "" when none
    prev_computed,      \* computed.out as it was when this run started
    runs                \* number of times the driver has been started

vars == <<datasizes, frequencies, count, command_template, pc, run_index,
          invocations, running, client_exits, utility_runs, utility_exits,
          failed, process_out, all_lines, data_lines, computed_out, iteration,
          error, prev_computed, runs>>

-----------------------------------------------------------------------------
(* Bounds of the model *)

MaxCount == 2
MaxLines == 3
RerunMaxLines == 1
MaxRuns == 2

-----------------------------------------------------------------------------
(* Program constants *)

all_datasizes == <<3000, 30000, 300000>>
all_frequencies == <<"0.5s", "1s", "5s">>
args_ipfile == "ips.txt"
ExitCodes == {0, 1}

Min(a, b) == IF a < b THEN a ELSE b
Max(a, b) == IF a > b THEN a ELSE b

-----------------------------------------------------------------------------
(* str(int) *)

Digit(n) == CASE n = 0 -> "0" [] n = 1 -> "1" [] n = 2 -> "2" [] n = 3 -> "3"
              [] n = 4 -> "4" [] n = 5 -> "5" [] n = 6 -> "6" [] n = 7 -> "7"
              [] n = 8 -> "8" [] n = 9 -> "9"

RECURSIVE Str(_)
Str(n) == IF n < 10 THEN Digit(n) ELSE Str(n \div 10) \o Digit(n % 10)

-----------------------------------------------------------------------------
(* str.strip, str.rstrip, str.startswith, str.split, float *)

IsSpace(c) == c \in {" ", "\t", "\n", "\r"}

RECURSIVE LStrip(_)
LStrip(s) == IF s = <<>> THEN <<>>
             ELSE IF IsSpace(Head(s)) THEN LStrip(Tail(s)) ELSE s

RECURSIVE RStrip(_)
RStrip(s) == IF s = <<>> THEN <<>>
             ELSE IF IsSpace(s[Len(s)]) THEN RStrip(SubSeq(s, 1, Len(s) - 1))
             ELSE s

Strip(s) == RStrip(LStrip(s))

StartsWith(s, p) == Len(s) >= Len(p) /\ SubSeq(s, 1, Len(p)) = p

\* first whitespace-delimited token of s (s has no leading whitespace)
RECURSIVE Token(_)
Token(s) == IF s = <<>> \/ IsSpace(Head(s)) THEN <<>>
            ELSE <<Head(s)>> \o Token(Tail(s))

RECURSIVE Split(_)
Split(s) ==
    LET t == LStrip(s)
    IN  IF t = <<>> THEN <<>>
        ELSE LET tok == Token(t)
             IN  <<tok>> \o Split(SubSeq(t, Len(tok) + 1, Len(t)))

DigitValue(c) == CASE c = "0" -> 0 [] c = "1" -> 1 [] c = "2" -> 2 [] c = "3" -> 3
                   [] c = "4" -> 4 [] c = "5" -> 5 [] c = "6" -> 6 [] c = "7" -> 7
                   [] c = "8" -> 8 [] c = "9" -> 9

IsDigit(c) == c \in {"0", "1", "2", "3", "4", "5", "6", "7", "8", "9"}

\* float(tok) succeeds; the tokens of the model are digit strings and words
IsFloat(tok) == tok # <<>> /\ \A i \in 1..Len(tok) : IsDigit(tok[i])

RECURSIVE Float(_)
Float(tok) == IF tok = <<>> THEN 0
              ELSE 10 * Float(SubSeq(tok, 1, Len(tok) - 1)) + DigitValue(tok[Len(tok)])

-----------------------------------------------------------------------------
(* What the latency utility may leave in process.out *)

LineBlank    == <<"\n">>
LineComment  == <<"#", "c", "\n">>
LineHeader   == <<"m", "s", "g", "i", "d", " ", "n", "\n">>
LineIndented == <<" ", "#", "c", "\n">>
LineA        == <<"a", " ", "1", " ", "2", " ", "4", " ", "6", "\n">>
LineB        == <<"b", " ", "1", " ", "3", " ", "8", " ", "1", "0", " ", "\n">>
LineBadMean  == <<"c", " ", "1", " ", "x", " ", "2", " ", "3", "\n">>

LineAlphabet == {LineBlank, LineComment, LineHeader, LineIndented,
                 LineA, LineB, LineBadMean}

SeqsUpTo(S, n) == UNION {[1..m -> S] : m \in 0..n}

Contents == SeqsUpTo(LineAlphabet, MaxLines)
RerunContents == SeqsUpTo(LineAlphabet, RerunMaxLines)

-----------------------------------------------------------------------------
(* The sweep *)

Prefix(s, n) == SubSeq(s, 1, n)

\* the product with the second list as the outer loop
ProductInnerFirst(a, b) ==
    [i \in 1..(Len(a) * Len(b)) |->
        <<a[((i - 1) % Len(a)) + 1], b[((i - 1) \div Len(a)) + 1]>>]

\* itertools.product(a, b): a outer, b inner
RECURSIVE Product(_, _)
Product(a, b) ==
    IF a = <<>> THEN <<>>
    ELSE [j \in 1..Len(b) |-> <<Head(a), b[j]>>] \o Product(Tail(a), b)

Combos == Product(datasizes, frequencies)

InitialTemplate ==
    <<"./p2p_client_multi_streams_publish",
      "-start-index", "1",
      "-end-index", "2",
      "-ipfile", args_ipfile,
      "-topic", "topicA",
      "-count", Str(count),
      "-sleep", "",
      "-datasize", "",
      "-output", "outgoing.txt">>

\* an output name that leaves the frequency out
OutputNameNoFreq(datasize, freq) == Str(datasize) \o "-output.txt"

OutputName(datasize, freq) == Str(datasize) \o "-" \o freq \o "-output.txt"

\* the three assignments of the run loop body (list indices 12, 14, 16)
SetTemplate(t, datasize, freq) ==
    [t EXCEPT ![13] = freq,
              ![15] = Str(datasize),
              ![17] = OutputName(datasize, freq)]

\* subprocess.run with check=True raises on a non-zero exit status
RunOutcomeChecked(rc) == IF rc = 0 THEN "returned" ELSE "raised"

\* subprocess.run without check=True returns whatever the exit status is
RunOutcome(rc) == "returned"

\* a spawn that does not wait for the child (Popen)
ReturnedAtOnce == TRUE

\* subprocess.run blocks until the child has exited
Returned == running = {}

-----------------------------------------------------------------------------
(* Aggregation *)

\* a filter that tests the prefixes on the trimmed line
KeepTrimmed(line) == /\ Strip(line) # <<>>
                     /\ ~StartsWith(Strip(line), <<"#">>)
                     /\ ~StartsWith(Strip(line), <<"m", "s", "g", "i", "d">>)

Keep(line) == /\ Strip(line) # <<>>
              /\ ~StartsWith(line, <<"#">>)
              /\ ~StartsWith(line, <<"m", "s", "g", "i", "d">>)

FilterLines(lines) == SelectSeq(lines, Keep)

\* a slice that takes the end index as inclusive
SliceInclusive(lines, start_idx, end_idx) ==
    SubSeq(lines, Min(start_idx, Len(lines)) + 1, Min(end_idx + 1, Len(lines)))

\* data_lines[start_idx:end_idx], 0-based and clamped as Python slices are
Slice(lines, start_idx, end_idx) ==
    SubSeq(lines, Min(start_idx, Len(lines)) + 1, Min(end_idx, Len(lines)))

\* the exception the loop body raises on a line, "" when it parses
ParseError(line) ==
    LET parts == Split(line)
    IN  IF Len(parts) < 3 THEN "IndexError"
        ELSE IF ~IsFloat(parts[3]) THEN "ValueError"
        ELSE IF Len(parts) < 4 THEN "IndexError"
        ELSE IF ~IsFloat(parts[4]) THEN "ValueError"
        ELSE IF Len(parts) < 5 THEN "IndexError"
        ELSE IF ~IsFloat(parts[5]) THEN "ValueError"
        ELSE ""

\* the exception of the first line of the block that does not parse
RECURSIVE BlockError(_)
BlockError(lines) ==
    IF lines = <<>> THEN ""
    ELSE IF ParseError(Head(lines)) # "" THEN ParseError(Head(lines))
    ELSE BlockError(Tail(lines))

\* sum of column col (1-based) over the lines of a block
RECURSIVE Total(_, _)
Total(lines, col) ==
    IF lines = <<>> THEN 0
    ELSE Float(Split(Head(lines))[col]) + Total(Tail(lines), col)

\* an average over the expected repetition count, not the lines present
AverageOverCount(total, count_lines) == (200 * total + count) \div (2 * count)

\* total / count_lines if count_lines else 0, rendered with :.2f, in hundredths
\* (no block of the model has 8 or more lines, so no tie is rounded)
Average(total, count_lines) ==
    IF count_lines # 0 THEN (200 * total + count_lines) \div (2 * count_lines)
    ELSE 0

HeaderLine == [kind |-> "header", text |-> <<>>, datasize |-> "", freq |-> "",
               avg_mean |-> 0, avg_p90 |-> 0, avg_p95 |-> 0]

RawLine(line) == [kind |-> "raw", text |-> Append(RStrip(line), "\n"),
                  datasize |-> "", freq |-> "",
                  avg_mean |-> 0, avg_p90 |-> 0, avg_p95 |-> 0]

SummaryLine(datasize, freq, lines) ==
    [kind |-> "summary", text |-> <<>>,
     datasize |-> Str(datasize), freq |-> freq,
     avg_mean |-> Average(Total(lines, 3), Len(lines)),
     avg_p90  |-> Average(Total(lines, 4), Len(lines)),
     avg_p95  |-> Average(Total(lines, 5), Len(lines))]

BlankLine == [kind |-> "blank", text |-> <<>>, datasize |-> "", freq |-> "",
              avg_mean |-> 0, avg_p90 |-> 0, avg_p95 |-> 0]

\* a block written summary first
BlockOutputSummaryFirst(datasize, freq, lines) ==
    <<SummaryLine(datasize, freq, lines)>>
        \o [i \in 1..Len(lines) |-> RawLine(lines[i])] \o <<BlankLine>>

\* what one loop iteration appends to computed.out
BlockOutput(datasize, freq, lines) ==
    [i \in 1..Len(lines) |-> RawLine(lines[i])]
        \o <<SummaryLine(datasize, freq, lines), BlankLine>>

\* raw lines written one by one as they are parsed
RECURSIVE WrittenBeforeErrorEager(_)
WrittenBeforeErrorEager(lines) ==
    IF lines = <<>> \/ ParseError(Head(lines)) # "" THEN <<>>
    ELSE <<RawLine(Head(lines))>> \o WrittenBeforeErrorEager(Tail(lines))

\* what an iteration that raises has appended to computed.out: nothing, the
\* parse loop is over before the file is opened for appending
WrittenBeforeError(lines) == <<>>

\* the header appended to the file as it is (mode "a")
StartOutputAppend(old) == old \o <<HeaderLine>>

\* open("computed.out", "w") followed by the header write
StartOutput(old) == <<HeaderLine>>

-----------------------------------------------------------------------------
(* State machine *)

\* the sweeps of the model: the lists of the script, and shorter ones
SweepShapes == {<<1, 1>>, <<1, 2>>, <<2, 2>>,
                <<Len(all_datasizes), Len(all_frequencies)>>}
RerunShapes == {<<1, 1>>, <<1, 2>>}

InitWith(shapes) ==
    /\ \E sh \in shapes :
          /\ datasizes = Prefix(all_datasizes, sh[1])
          /\ frequencies = Prefix(all_frequencies, sh[2])
    /\ count \in 1..MaxCount
    /\ command_template = InitialTemplate
    /\ pc = "run_loop"
    /\ run_index = 0
    /\ invocations = <<>>
    /\ running = {}
    /\ client_exits = 0
    /\ utility_runs = 0
    /\ utility_exits = 0
    /\ failed = FALSE
    /\ process_out = <<>>
    /\ all_lines = <<>>
    /\ data_lines = <<>>
    /\ computed_out = <<>>
    /\ iteration = 0
    /\ error = ""
    /\ prev_computed = <<>>
    /\ runs = 1

Init == InitWith(SweepShapes)

\* one pass of the run loop up to the spawn of the publish client
RunClient ==
    /\ pc = "run_loop"
    /\ Returned
    /\ run_index < Len(Combos)
    /\ LET datasize == Combos[run_index + 1][1]
           freq     == Combos[run_index + 1][2]
       IN  /\ command_template' = SetTemplate(command_template, datasize, freq)
           /\ invocations' = Append(invocations, command_template')
           /\ running' = running \cup {<<"client", run_index + 1>>}
    /\ run_index' = run_index + 1
    /\ UNCHANGED <<datasizes, frequencies, count, pc, client_exits, utility_runs,
                   utility_exits, failed, process_out, all_lines, data_lines,
                   computed_out, iteration, error, prev_computed, runs>>

\* a publish client exits with some status
ClientExit ==
    /\ \E p \in running, rc \in ExitCodes :
        /\ p[1] = "client"
        /\ running' = running \ {p}
        /\ client_exits' = client_exits + 1
        /\ failed' = (failed \/ rc # 0)
        /\ IF RunOutcome(rc) = "returned"
           THEN UNCHANGED <<pc, error>>
           ELSE pc' = "crashed" /\ error' = "CalledProcessError"
    /\ UNCHANGED <<datasizes, frequencies, count, command_template, run_index,
                   invocations, utility_runs, utility_exits, process_out,
                   all_lines, data_lines, computed_out, iteration,
                   prev_computed, runs>>

\* after the run loop: open process.out for writing and spawn the utility
StartUtility ==
    /\ pc = "run_loop"
    /\ Returned
    /\ run_index = Len(Combos)
    /\ process_out' = <<>>
    /\ running' = running \cup {<<"utility", utility_runs + 1>>}
    /\ utility_runs' = utility_runs + 1
    /\ pc' = "read"
    /\ UNCHANGED <<datasizes, frequencies, count, command_template, run_index,
                   invocations, client_exits, utility_exits, failed, all_lines,
                   data_lines, computed_out, iteration, error, prev_computed,
                   runs>>

\* the utility exits with some status, having written some text
UtilityExitWith(contents) ==
    /\ \E p \in running, rc \in ExitCodes, text \in contents :
        /\ p[1] = "utility"
        /\ running' = running \ {p}
        /\ utility_exits' = utility_exits + 1
        /\ failed' = (failed \/ rc # 0)
        /\ process_out' = text
        /\ IF RunOutcome(rc) = "returned"
           THEN UNCHANGED <<pc, error>>
           ELSE pc' = "crashed" /\ error' = "CalledProcessError"
    /\ UNCHANGED <<datasizes, frequencies, count, command_template, run_index,
                   invocations, client_exits, utility_runs, all_lines,
                   data_lines, computed_out, iteration, prev_computed, runs>>

UtilityExit == UtilityExitWith(Contents)

\* read process.out, filter, start computed.out, iteration = 0
ReadAndFilter ==
    /\ pc = "read"
    /\ Returned
    /\ all_lines' = process_out
    /\ data_lines' = FilterLines(process_out)
    /\ computed_out' = StartOutput(computed_out)
    /\ iteration' = 0
    /\ pc' = "agg_loop"
    /\ UNCHANGED <<datasizes, frequencies, count, command_template, run_index,
                   invocations, running, client_exits, utility_runs,
                   utility_exits, failed, process_out, error, prev_computed,
                   runs>>

\* one pass of the aggregation loop
Aggregate ==
    /\ pc = "agg_loop"
    /\ iteration < Len(Combos)
    /\ LET datasize  == Combos[iteration + 1][1]
           freq      == Combos[iteration + 1][2]
           start_idx == iteration * count
           end_idx   == start_idx + count
           iteration_lines == Slice(data_lines, start_idx, end_idx)
       IN  IF BlockError(iteration_lines) # ""
           THEN /\ pc' = "crashed"
                /\ error' = BlockError(iteration_lines)
                /\ computed_out' =
                      computed_out \o WrittenBeforeError(iteration_lines)
                /\ UNCHANGED iteration
           ELSE /\ computed_out' =
                      computed_out \o BlockOutput(datasize, freq, iteration_lines)
                /\ iteration' = iteration + 1
                /\ pc' = IF iteration + 1 = Len(Combos) THEN "done" ELSE "agg_loop"
                /\ UNCHANGED error
    /\ UNCHANGED <<datasizes, frequencies, count, command_template, run_index,
                   invocations, running, client_exits, utility_runs,
                   utility_exits, failed, process_out, all_lines, data_lines,
                   prev_computed, runs>>

Next == RunClient \/ ClientExit \/ StartUtility \/ UtilityExit
            \/ ReadAndFilter \/ Aggregate

Spec == Init /\ [][Next]_vars

-----------------------------------------------------------------------------
(* The driver started again in the same directory: the files stay, the     *)
(* script's variables are initialised afresh.                              *)

Restart ==
    /\ pc \in {"done", "crashed"}
    /\ runs < MaxRuns
    /\ runs' = runs + 1
    /\ prev_computed' = computed_out
    /\ command_template' = InitialTemplate
    /\ pc' = "run_loop"
    /\ run_index' = 0
    /\ invocations' = <<>>
    /\ client_exits' = 0
    /\ utility_runs' = 0
    /\ utility_exits' = 0
    /\ failed' = FALSE
    /\ all_lines' = <<>>
    /\ data_lines' = <<>>
    /\ iteration' = 0
    /\ error' = ""
    /\ UNCHANGED <<datasizes, frequencies, count, running, process_out,
                   computed_out>>

UtilityExitRerun == UtilityExitWith(RerunContents)

InitRerun == InitWith(RerunShapes)

NextRerun == RunClient \/ ClientExit \/ StartUtility \/ UtilityExitRerun
                \/ ReadAndFilter \/ Aggregate \/ Restart

SpecRerun == InitRerun /\ [][NextRerun]_vars

-----------------------------------------------------------------------------
(* Vocabulary of the properties *)

D == Len(datasizes)
F == Len(frequencies)
NumCombos == D * F
NumSlots == NumCombos * count
NumData == Len(data_lines)

Abs(x) == IF x < 0 THEN 0 - x ELSE x

Aggregating == pc \in {"agg_loop", "done", "crashed"}

IsSummary(l) == l.kind = "summary"
IsRaw(l) == l.kind = "raw"

Summaries == SelectSeq(computed_out, IsSummary)
RawLines == SelectSeq(computed_out, IsRaw)

\* w is line without its trailing whitespace, with a newline put back
IsTrimOf(w, line) ==
    /\ Len(w) >= 2
    /\ w[Len(w)] = "\n"
    /\ ~IsSpace(w[Len(w) - 1])
    /\ Len(w) - 1 <= Len(line)
    /\ \A i \in 1..(Len(w) - 1) : w[i] = line[i]
    /\ \A i \in Len(w)..Len(line) : IsSpace(line[i])

\* the line has the five columns msgid n mean p90 p95, the last three numeric
WellFormed(line) ==
    LET parts == Split(line)
    IN  /\ Len(parts) >= 5
        /\ \A c \in 3..5 : IsFloat(parts[c])

AllWellFormed == \A i \in 1..NumData : WellFormed(data_lines[i])

\* number of data lines that belong to block b (blocks numbered from 0)
BlockSize(b) == Max(0, Min(count, NumData - b * count))

\* position in computed.out of the last line written before block b
RECURSIVE Offset(_)
Offset(b) == IF b = 0 THEN 1 ELSE Offset(b - 1) + BlockSize(b - 1) + 2

\* sum of column col over the data lines numbered from + 1 .. from + n
RECURSIVE ColumnSum(_, _, _)
ColumnSum(from, n, col) ==
    IF n = 0 THEN 0
    ELSE ColumnSum(from, n - 1, col) + Float(Split(data_lines[from + n])[col])

\* avg (in hundredths) is the mean of n values adding up to sum, to two decimals
IsMean(avg, sum, n) ==
    IF n = 0 THEN avg = 0 ELSE 2 * Abs(n * avg - 100 * sum) <= n

\* the summary line l carries the means of the n data lines after line from
IsSummaryOf(l, from, n) ==
    /\ l.kind = "summary"
    /\ IsMean(l.avg_mean, ColumnSum(from, n, 3), n)
    /\ IsMean(l.avg_p90, ColumnSum(from, n, 4), n)
    /\ IsMean(l.avg_p95, ColumnSum(from, n, 5), n)

-----------------------------------------------------------------------------
\* C1: the run phase issues exactly D*F publish-client invocations, one per
\* (datasize, frequency) pair, and the -output name of each invocation is
\* "{datasize}-{freq}-output.txt", different from the name of every other
\* invocation and never the template default "outgoing.txt".
C1_OneInvocationPerPair ==
    /\ Len(invocations) <= NumCombos
    /\ utility_runs >= 1 =>
          /\ Len(invocations) = NumCombos
          /\ \A d \in 1..D, f \in 1..F :
                LET size == Str(datasizes[d])
                IN  Cardinality({k \in 1..Len(invocations) :
                                    /\ invocations[k][15] = size
                                    /\ invocations[k][13] = frequencies[f]}) = 1
    /\ \A i \in 1..Len(invocations) :
          /\ invocations[i][17] # "outgoing.txt"
          /\ invocations[i][17] =
                invocations[i][15] \o "-" \o invocations[i][13] \o "-output.txt"
          /\ \A j \in 1..(i - 1) : invocations[i][17] # invocations[j][17]

C1_Witness ==
    /\ utility_runs = 1
    /\ D = 3 /\ F = 3
    /\ Len(invocations) = 9

\* C4: the run phase, the trace reduction and the aggregation never overlap:
\* at most one external process runs, each publish client has exited before
\* the next is started, the latency utility is started only after all D*F
\* publish clients have exited, and process.out is read only after the
\* utility has exited.
C4_NoOverlap ==
    /\ Cardinality(running) <= 1
    /\ Len(invocations) - client_exits \in {0, 1}
    /\ utility_runs >= 1 => client_exits = NumCombos
    /\ Aggregating => (utility_exits = 1 /\ running = {})

C4_Witness ==
    /\ pc = "done"
    /\ NumCombos = 9
    /\ client_exits = 9
    /\ utility_exits = 1

\* C5: whatever exit status the external processes return, the driver goes
\* on: it is never stopped by an exit status, and when it ends all D*F
\* publish clients were invoked, the latency utility was invoked once, and
\* the aggregation has run over the text of process.out.
C5_FailuresIgnored ==
    /\ error # "CalledProcessError"
    /\ (~Aggregating /\ running = {}) => ENABLED (RunClient \/ StartUtility \/ ReadAndFilter)
    /\ pc \in {"done", "crashed"} =>
          /\ Len(invocations) = NumCombos
          /\ utility_runs = 1
          /\ all_lines = process_out
          /\ data_lines = FilterLines(process_out)
          /\ computed_out # <<>>
          /\ computed_out[1].kind = "header"

C5_Witness ==
    /\ pc = "done"
    /\ failed
    /\ NumCombos >= 2
    /\ NumData >= 1

-----------------------------------------------------------------------------
\* a line is non-empty after trimming and starts neither with # nor with msgid
Retained(line) ==
    /\ \E i \in 1..Len(line) : ~IsSpace(line[i])
    /\ ~(Len(line) >= 1 /\ line[1] = "#")
    /\ ~(/\ Len(line) >= 5
         /\ line[1] = "m" /\ line[2] = "s" /\ line[3] = "g"
         /\ line[4] = "i" /\ line[5] = "d")

RetainedUpTo(i) == Cardinality({j \in 1..i : Retained(all_lines[j])})

\* C6: a line of process.out is a data line iff it is non-empty after trimming
\* and starts neither with "#" nor with "msgid"; the data lines keep their
\* relative order and are no more than the lines read.
C6_Filter ==
    Aggregating =>
        /\ NumData = RetainedUpTo(Len(all_lines))
        /\ NumData <= Len(all_lines)
        /\ \A i \in 1..Len(all_lines) :
              Retained(all_lines[i]) => data_lines[RetainedUpTo(i)] = all_lines[i]

C6_Witness ==
    /\ Aggregating
    /\ all_lines = <<LineIndented, LineComment, LineA>>
    /\ data_lines = <<LineIndented, LineA>>

-----------------------------------------------------------------------------
\* the raw lines written between the summary of block b - 1 and that of block b
BlockRawCount(b) ==
    LET last == Offset(b) + BlockSize(b) + 1     \* where the summary must be
    IN  Cardinality({i \in (Offset(b) + 1)..(last - 1) :
                        i <= Len(computed_out) /\ computed_out[i].kind = "raw"})

\* C7: when process.out holds fewer than D*F*count data lines, all well-formed,
\* the aggregation ends without error: every combination gets exactly one
\* summary line, a trailing block holds only the lines that exist, its
\* averages divide by the number of lines in the block, and an empty block
\* has avg_mean = avg_p90 = avg_p95 = 0.
C7_ShortInput ==
    (Aggregating /\ NumData < NumSlots /\ AllWellFormed) =>
        /\ pc # "crashed"
        /\ error = ""
        /\ Len(Summaries) = iteration
        /\ pc = "done" =>
              /\ Len(Summaries) = NumCombos
              /\ Len(RawLines) = NumData
              /\ \A b \in 0..(NumCombos - 1) :
                    LET l == computed_out[Offset(b) + BlockSize(b) + 1]
                    IN  /\ BlockSize(b) < count \/ (b + 1) * count <= NumData
                        /\ BlockRawCount(b) = BlockSize(b)
                        /\ IsSummaryOf(l, b * count, BlockSize(b))
                        /\ BlockSize(b) = 0 =>
                              (l.avg_mean = 0 /\ l.avg_p90 = 0 /\ l.avg_p95 = 0)

\* a short block followed by an empty one
C7_Witness ==
    /\ pc = "done"
    /\ count = 2
    /\ NumCombos >= 3
    /\ data_lines = <<LineB, LineA, LineA>>

-----------------------------------------------------------------------------
\* the mean field (third column) of the line is there and is not numeric
BadMean(line) ==
    LET parts == Split(line)
    IN  Len(parts) >= 3 /\ ~IsFloat(parts[3])

\* the block (numbered from 0) that data line i belongs to
BlockOf(i) == (i - 1) \div count

\* the file holds the header and the complete output of the first n blocks
HoldsBlocks(n) ==
    /\ computed_out # <<>>
    /\ computed_out[1].kind = "header"
    /\ Len(Summaries) = n
    /\ Len(computed_out) = Offset(n)
    /\ \A b \in 0..(n - 1) :
          /\ \A r \in 1..BlockSize(b) :
                /\ computed_out[Offset(b) + r].kind = "raw"
                /\ IsTrimOf(computed_out[Offset(b) + r].text,
                            data_lines[b * count + r])
          /\ IsSummaryOf(computed_out[Offset(b) + BlockSize(b) + 1],
                         b * count, BlockSize(b))
          /\ computed_out[Offset(b) + BlockSize(b) + 2].kind = "blank"

\* C8 as stated: any retained data line with a non-numeric mean makes the
\* aggregation fail before the summary of its block is written: the run never
\* completes, no summary of that block or of a later one is written, and the
\* header and the complete output of the earlier blocks remain.
C8_Original ==
    Aggregating =>
        \A i \in 1..NumData :
            BadMean(data_lines[i]) =>
                /\ pc # "done"
                /\ iteration <= BlockOf(i)
                /\ Len(Summaries) <= BlockOf(i)
                /\ pc = "crashed" =>
                      /\ error \in {"ValueError", "IndexError"}
                      /\ HoldsBlocks(iteration)
                      /\ (\A j \in 1..(i - 1) : ParseError(data_lines[j]) = "")
                            => iteration = BlockOf(i)

\* C8 (amended): a retained data line with a non-numeric mean that lies among
\* the first D*F*count data lines makes the aggregation fail: the run never
\* completes, no summary of the line's block or of a later block is written,
\* and when the run has failed computed.out holds the header and the complete
\* output of the blocks before the failing one, which is the line's block
\* when no earlier data line fails to parse.
C8_MalformedFatal ==
    Aggregating =>
        \A i \in 1..Min(NumData, NumSlots) :
            BadMean(data_lines[i]) =>
                /\ pc # "done"
                /\ iteration <= BlockOf(i)
                /\ Len(Summaries) <= BlockOf(i)
                /\ pc = "crashed" =>
                      /\ error \in {"ValueError", "IndexError"}
                      /\ HoldsBlocks(iteration)
                      /\ (\A j \in 1..(i - 1) : ParseError(data_lines[j]) = "")
                            => iteration = BlockOf(i)

\* the bad line in the second block, after a complete first block
C8_Witness ==
    /\ pc = "crashed"
    /\ error = "ValueError"
    /\ count = 2
    /\ data_lines = <<LineA, LineB, LineBadMean>>
    /\ Len(Summaries) = 1

-----------------------------------------------------------------------------
\* C3 as stated: the raw lines of computed.out, in order, are all the data
\* lines (each right-trimmed), whatever their number.
C3_Original ==
    pc = "done" =>
        /\ Len(RawLines) = NumData
        /\ \A i \in 1..Min(NumData, Len(RawLines)) :
              IsTrimOf(RawLines[i].text, data_lines[i])

\* C3 (amended): the raw lines of computed.out, in block order, are the first
\* min(N, blocks written * count) of the N data lines, each right-trimmed, in
\* their original order with none missing, duplicated or reordered; after a
\* complete run they are the first min(N, D*F*count) data lines, so data
\* lines beyond D*F*count are left out.
C3_RawLinesArePrefix ==
    Aggregating =>
        /\ Len(RawLines) = Min(NumData, iteration * count)
        /\ \A i \in 1..Len(RawLines) : IsTrimOf(RawLines[i].text, data_lines[i])
        /\ pc = "done" => Len(RawLines) = Min(NumData, NumSlots)

\* more data lines than slots
C3_Witness ==
    /\ pc = "done"
    /\ NumData > NumSlots
    /\ NumSlots >= 2
    /\ Len(RawLines) = NumSlots

-----------------------------------------------------------------------------
\* C9: after a complete run over well-formed data computed.out is the header
\* row, once and first, then for i = 0 .. D*F-1 in order the data lines
\* [i*count, i*count+count) that exist (right-trimmed), one summary line with
\* the arithmetic means of the mean, p90 and p95 columns of exactly those
\* lines, and one blank line; no block is larger than count and consecutive
\* blocks neither overlap nor skip a line.
C9_Report ==
    (pc = "done" /\ AllWellFormed) =>
        /\ HoldsBlocks(NumCombos)
        /\ \A i \in 2..Len(computed_out) : computed_out[i].kind # "header"
        /\ \A b \in 0..(NumCombos - 1) : BlockSize(b) <= count
        /\ \A b \in 0..(NumCombos - 1) :
              LET l == computed_out[Offset(b) + BlockSize(b) + 1]
              IN  /\ l.datasize = Str(Combos[b + 1][1])
                  /\ l.freq = Combos[b + 1][2]

\* one full block of two lines and a second block
C9_Witness ==
    /\ pc = "done"
    /\ count = 2
    /\ NumCombos = 2
    /\ data_lines = <<LineA, LineB, LineB>>
    /\ computed_out[4].avg_mean = 250
    /\ computed_out[4].avg_p95 = 800

-----------------------------------------------------------------------------
\* C10: both phases use the same sweep order, datasize outer and frequency
\* inner: the k-th publish-client invocation carries the -sleep, -datasize and
\* -output values of the k-th combination, and the k-th summary line of
\* computed.out names that combination.
C10_SameOrder ==
    LET template == InitialTemplate
        summaries == Summaries
    IN  \A d \in 1..D, f \in 1..F :
            LET k == (d - 1) * F + f
                size == Str(datasizes[d])
            IN  /\ k <= Len(invocations) =>
                      /\ invocations[k][13] = frequencies[f]
                      /\ invocations[k][15] = size
                      /\ invocations[k][17] =
                            size \o "-" \o frequencies[f] \o "-output.txt"
                      /\ \A x \in (1..17) \ {13, 15, 17} :
                            invocations[k][x] = template[x]
                /\ (Aggregating /\ k <= Len(summaries)) =>
                      /\ summaries[k].datasize = size
                      /\ summaries[k].freq = frequencies[f]

C10_Witness ==
    /\ pc = "done"
    /\ D = 3 /\ F = 3
    /\ Len(invocations) = 9
    /\ Len(Summaries) = 9

-----------------------------------------------------------------------------
IsPrefixOf(a, b) == Len(a) <= Len(b) /\ SubSeq(b, 1, Len(a)) = a

\* C2 as stated: a later run never truncates computed.out, the file keeps what
\* it held when the run started and the run's output follows it.
C2_Original ==
    runs >= 2 => IsPrefixOf(prev_computed, computed_out)

\* C2 (amended): computed.out is truncated by every run when its aggregation
\* phase starts: until then the file is as the earlier run left it, and from
\* then on it holds the output of the current run alone, so after two
\* successive invocations the file holds only the second run's content.
C2_TruncatedPerRun ==
    runs >= 2 =>
        /\ ~Aggregating => computed_out = prev_computed
        /\ Aggregating => HoldsBlocks(iteration)
        /\ Aggregating =>
              Cardinality({i \in 1..Len(computed_out) :
                              computed_out[i].kind = "header"}) = 1

\* a second, shorter report replaces the first
C2_Witness ==
    /\ runs = 2
    /\ pc = "done"
    /\ Len(prev_computed) > Len(computed_out)
    /\ NumData = 0
    /\ Len(computed_out) = 1 + 2 * NumCombos

====
